---- MODULE Spec2Model ----
(***************************************************************************)
(* Composition (opentimelineio/core/composition.py): an Item that is also  *)
(* a mutable sequence of Composables.  The model keeps the object graph    *)
(* (each composition's _children list, each composable's _parent           *)
(* back-reference, each composition's source_range) and one action per     *)
(* method of the class.  Times are integers (one rate).                    *)
(***************************************************************************)
EXTENDS Integers, Sequences, FiniteSets, TLC

\* ---------------------------------------------------------------- bounds
\* Longest _children list a mutation may build.
MaxLen == 2
\* Largest start and duration of a source_range given at construction.
MaxTime == 1

\* --------------------------------------------------------------- objects
None == "None"

\* Two concrete compositions (a Stack and a Sequence), two leaf Items, one
\* Composable that is not an Item, one object that is not a Composable.
Compositions == {"stk", "sq"}
Leaves == {"clipA", "gapB"}
PlainComposables == {"trans"}
Objects == {"obj"}

Composables == Compositions \cup Leaves \cup PlainComposables

\* isinstance(x, composable.Composable): Composition._composable_base_class
IsComposable(x) == x \in Composables
\* isinstance(x, item.Item)
IsItem(x) == x \in Compositions \cup Leaves
\* isinstance(x, Composition)
IsComposition(x) == x \in Compositions

VARIABLES children, parent, source_range, last

vars == <<children, parent, source_range, last>>

\* The object graph the methods read and write.
Heap == [children |-> children, parent |-> parent]

\* What the last call was, on what, and how it ended.
Call(op, c, x, err, ret) ==
    [op |-> op, self |-> c, item |-> x, err |-> err, ret |-> ret]

\* ------------------------------------------------------------ list steps
\* list.insert(index, x): a negative index counts from the end, and the
\* position is clamped into 0..len.
PyInsert(s, index, x) ==
    LET n == Len(s)
        i0 == IF index < 0 THEN index + n ELSE index
        i == IF i0 < 0 THEN 0 ELSE IF i0 > n THEN n ELSE i0
    IN SubSeq(s, 1, i) \o <<x>> \o SubSeq(s, i + 1, n)

\* list[key] with an integer key: a negative key counts from the end.
PyPos(s, key) == IF key < 0 THEN key + Len(s) ELSE key

PyInRange(s, key) == PyPos(s, key) >= 0 /\ PyPos(s, key) < Len(s)

\* Composition.__getitem__
getitem(h, c, key) == h.children[c][PyPos(h.children[c], key) + 1]

\* Composition.__len__
len(h, c) == Len(h.children[c])

\* MutableSequence.index over __getitem__: the first position holding x,
\* or -1 for ValueError.
index_of(h, c, x) ==
    LET hits == {i \in 0..(len(h, c) - 1) : getitem(h, c, i) = x}
    IN IF hits = {} THEN -1
       ELSE CHOOSE i \in hits : \A j \in hits : i <= j

\* Composable._set_parent: assigns the back-reference, nothing else.
set_parent(par, x, c) == [par EXCEPT ![x] = c]

\* --------------------------------------------------------------- methods
\* insert without the back-reference assignment.
insert_no_parent(h, c, index, item) ==
    IF ~IsComposable(item)
    THEN [h |-> h, err |-> "TypeError"]
    ELSE [h |-> [children |-> [h.children EXCEPT
                                 ![c] = PyInsert(@, index, item)],
                 parent |-> h.parent],
          err |-> "ok"]

\* Composition.insert
insert(h, c, index, item) ==
    IF ~IsComposable(item)
    THEN [h |-> h, err |-> "TypeError"]
    ELSE [h |-> [children |-> [h.children EXCEPT
                                 ![c] = PyInsert(@, index, item)],
                 parent |-> set_parent(h.parent, item, c)],
          err |-> "ok"]

\* Composition.__setitem__: the back-reference is assigned first, with no
\* type check; an object without _set_parent raises AttributeError, and an
\* index out of range raises IndexError after the assignment.
setitem(h, c, key, value) ==
    IF ~IsComposable(value)
    THEN [h |-> h, err |-> "AttributeError"]
    ELSE LET par == set_parent(h.parent, value, c)
         IN IF ~PyInRange(h.children[c], key)
            THEN [h |-> [children |-> h.children, parent |-> par],
                  err |-> "IndexError"]
            ELSE [h |-> [children |-> [h.children EXCEPT
                           ![c][PyPos(h.children[c], key) + 1] = value],
                         parent |-> par],
                  err |-> "ok"]

\* Composition.__delitem__; thing is the removed child.
delitem(h, c, key) ==
    IF ~PyInRange(h.children[c], key)
    THEN [h |-> h, err |-> "IndexError", thing |-> None]
    ELSE LET s == h.children[c]
             p == PyPos(s, key) + 1
             thing == s[p]
         IN [h |-> [children |-> [h.children EXCEPT
                      ![c] = SubSeq(s, 1, p - 1) \o SubSeq(s, p + 1, Len(s))],
                    parent |-> set_parent(h.parent, thing, None)],
             err |-> "ok", thing |-> thing]

\* MutableSequence.extend, as __init__ uses it: append is insert at len,
\* one item after the other; an item that fails stops the loop and leaves
\* the earlier ones inserted.
RECURSIVE extend(_, _, _)
extend(h, c, items) ==
    IF items = <<>>
    THEN [h |-> h, err |-> "ok"]
    ELSE LET r == insert(h, c, len(h, c), Head(items))
         IN IF r.err # "ok" THEN r ELSE extend(r.h, c, Tail(items))

\* The node k back-references above x (None once the chain has ended).
RECURSIVE Up(_, _, _)
Up(par, x, k) ==
    IF k = 0 \/ x = None THEN x ELSE Up(par, par[x], k - 1)

\* Composition._path_to_child: the walk, with the steps left before a
\* chain that reaches neither self nor None must have revisited a node
\* (the loop then never ends: NoReturn).
RECURSIVE path_walk(_, _, _, _, _)
path_walk(par, c, current, parents, fuel) ==
    IF current = c THEN [err |-> "ok", ret |-> parents]
    ELSE IF current = None THEN [err |-> "NotAChildError", ret |-> <<>>]
    ELSE IF fuel = 0 THEN [err |-> "NoReturn", ret |-> <<>>]
    ELSE path_walk(par, c, par[current],
                   Append(parents, par[current]), fuel - 1)

\* _path_to_child raising NotAChildError for a child that is not an Item.
path_to_child_one_error(h, c, child) ==
    IF ~IsItem(child)
    THEN [err |-> "NotAChildError", ret |-> <<>>]
    ELSE path_walk(h.parent, c, child, <<>>, Cardinality(Composables))

\* Composition._path_to_child
path_to_child(h, c, child) ==
    IF ~IsItem(child)
    THEN [err |-> "TypeError", ret |-> <<>>]
    ELSE path_walk(h.parent, c, child, <<>>, Cardinality(Composables))

\* --------------------------------------------------------------- actions
\* A source_range, or a range result, that is None.
NoRange == [none |-> TRUE]

Init ==
    /\ children = [c \in Compositions |-> <<>>]
    /\ parent = [x \in Composables |-> None]
    /\ source_range = [c \in Compositions |-> NoRange]
    /\ last = Call("init", None, None, "ok", <<>>)

Insert(c, index, item) ==
    LET r == insert(Heap, c, index, item)
    IN /\ r.err = "ok" => len(Heap, c) < MaxLen
       /\ children' = r.h.children
       /\ parent' = r.h.parent
       /\ last' = Call("insert", c, item, r.err, <<>>)
       /\ UNCHANGED source_range

SetItem(c, key, value) ==
    LET r == setitem(Heap, c, key, value)
    IN /\ children' = r.h.children
       /\ parent' = r.h.parent
       /\ last' = Call("setitem", c, value, r.err, <<>>)
       /\ UNCHANGED source_range

DelItem(c, key) ==
    LET r == delitem(Heap, c, key)
    IN /\ children' = r.h.children
       /\ parent' = r.h.parent
       /\ last' = Call("delitem", c, r.thing, r.err, <<>>)
       /\ UNCHANGED source_range

Extend(c, items) ==
    LET r == extend(Heap, c, items)
    IN /\ len(Heap, c) + Len(items) <= MaxLen
       /\ children' = r.h.children
       /\ parent' = r.h.parent
       /\ last' = Call("extend", c, None, r.err, <<>>)
       /\ UNCHANGED source_range

PathToChild(c, child) ==
    LET r == path_to_child(Heap, c, child)
    IN /\ last' = Call("path_to_child", c, child, r.err, r.ret)
       /\ UNCHANGED <<children, parent, source_range>>

\* The objects the mutation calls are given.
MutItems == {"sq", "trans", "obj"}

\* The children the path is asked for.
PathItems == {"stk", "sq", "trans", "obj"}

Indices == -1..(MaxLen - 1)

ExtendArgs ==
    {<<x>> : x \in MutItems} \cup {<<x, y>> : x \in MutItems, y \in MutItems}

Next ==
    \/ \E c \in Compositions, i \in Indices, x \in MutItems : Insert(c, i, x)
    \/ \E c \in Compositions, i \in Indices, x \in MutItems : SetItem(c, i, x)
    \/ \E c \in Compositions, i \in Indices : DelItem(c, i)
    \/ \E c \in Compositions, xs \in ExtendArgs : Extend(c, xs)
    \/ \E c \in Compositions, x \in PathItems : PathToChild(c, x)

Spec == Init /\ [][Next]_vars

\* ------------------------------------------------------- time primitives
TimeRange(start, dur) == [start |-> start, dur |-> dur]

\* TimeRange.end_time_exclusive
end_time_exclusive(r) == r.start + r.dur

\* TimeRange.overlaps(other range)
overlaps(r, o) ==
    r.start < end_time_exclusive(o) /\ o.start < end_time_exclusive(r)

\* TimeRange.contains(t)
contains(r, t) == r.start <= t /\ t < end_time_exclusive(r)

Max(a, b) == IF a >= b THEN a ELSE b

Min(a, b) == IF a <= b THEN a ELSE b

\* ------------------------------------------------ items and their kinds
\* The concrete kind of each composition.
composition_kind(c) == IF c = "stk" THEN "Stack" ELSE "Sequence"

\* Item.visible(): a clip and the stack are visible, a gap and the
\* sequence are not.
visible(x) == x \in {"stk", "clipA"}

\* The duration of a leaf's media (its available range).
available_duration(x) == IF x = "clipA" THEN 2 ELSE 1

\* Item.duration(): the source_range's duration when set; otherwise the
\* media's for a leaf, the sum of the children's for a Sequence and the
\* longest child's for a Stack.
RECURSIVE duration(_)
RECURSIVE children_duration(_, _)
children_duration(c, n) ==
    IF n = 0 THEN 0
    ELSE LET d == duration(children[c][n])
             rest == children_duration(c, n - 1)
         IN IF composition_kind(c) = "Sequence"
            THEN rest + d ELSE Max(rest, d)

duration(x) ==
    IF ~IsComposition(x) THEN available_duration(x)
    ELSE IF source_range[x] # NoRange THEN source_range[x].dur
    ELSE children_duration(x, Len(children[x]))

\* range_of_child_at_index of the concrete kinds: in a Sequence the child
\* starts where the children before it end, in a Stack at zero; the
\* duration is the child's own.
range_of_child_at_index(c, index) ==
    LET child == children[c][index + 1]
    IN IF composition_kind(c) = "Sequence"
       THEN TimeRange(children_duration(c, index), duration(child))
       ELSE TimeRange(0, duration(child))

\* The trimming rule: r cut to the window w, None when nothing is left.
trim_to(w, r) ==
    LET new_start == Max(w.start, r.start)
        new_end == Min(end_time_exclusive(r), end_time_exclusive(w))
    IN IF new_start >= end_time_exclusive(r) THEN NoRange
       ELSE IF new_end - new_start < 0 THEN NoRange
       ELSE TimeRange(new_start, new_end - new_start)

\* trimmed_range_of_child_at_index of the concrete kinds.
trimmed_range_of_child_at_index(c, index) ==
    IF source_range[c] = NoRange
    THEN range_of_child_at_index(c, index)
    ELSE trim_to(source_range[c], range_of_child_at_index(c, index))

\* Item.transformed_time(t, child) for a direct child: out of self's
\* frame at the child's place, into the child's own trimmed frame.
transformed_time(c, t, child) ==
    t - range_of_child_at_index(c, index_of(Heap, c, child)).start
      + (IF IsComposition(child) /\ source_range[child] # NoRange
         THEN source_range[child].start ELSE 0)

\* ------------------------------------------------------- range queries
\* The loop of range_of_child over the path: the first range found is
\* kept, and each higher ancestor adds its child's start to it.
RECURSIVE range_walk(_, _, _)
range_walk(parents, current, result_range) ==
    IF parents = <<>> THEN [err |-> "ok", ret |-> result_range]
    ELSE LET p == Head(parents)
             index == index_of(Heap, p, current)
         IN IF index < 0 THEN [err |-> "ValueError", ret |-> NoRange]
            ELSE LET parent_range == range_of_child_at_index(p, index)
                 IN IF result_range = NoRange
                    THEN range_walk(Tail(parents), p, parent_range)
                    ELSE range_walk(Tail(parents), p,
                           TimeRange(result_range.start + parent_range.start,
                                     result_range.dur))

\* range_of_child taking each level's range whole (start and duration).
range_of_child_last_level(c, child) ==
    LET path == path_to_child(Heap, c, child)
    IN IF path.err # "ok" THEN [err |-> path.err, ret |-> NoRange]
       ELSE IF path.ret = <<>> THEN [err |-> "ok", ret |-> NoRange]
       ELSE LET top == path.ret[Len(path.ret)]
                below == IF Len(path.ret) = 1 THEN child
                         ELSE path.ret[Len(path.ret) - 1]
            IN [err |-> "ok",
                ret |-> range_of_child_at_index(
                            top, index_of(Heap, top, below))]

\* Composition.range_of_child, reference_space left at its default.
range_of_child(c, child) ==
    LET path == path_to_child(Heap, c, child)
    IN IF path.err # "ok" THEN [err |-> path.err, ret |-> NoRange]
       ELSE range_walk(path.ret, child, NoRange)

\* The loop of trimmed_range_of_child: as range_walk, over the trimmed
\* ranges, any of which may be None.
RECURSIVE trimmed_walk(_, _, _)
trimmed_walk(parents, current, result_range) ==
    IF parents = <<>> THEN [err |-> "ok", ret |-> result_range]
    ELSE LET p == Head(parents)
             index == index_of(Heap, p, current)
         IN IF index < 0 THEN [err |-> "ValueError", ret |-> NoRange]
            ELSE LET parent_range == trimmed_range_of_child_at_index(p, index)
                 IN IF result_range = NoRange
                    THEN trimmed_walk(Tail(parents), p, parent_range)
                    ELSE IF parent_range = NoRange
                    THEN [err |-> "AttributeError", ret |-> NoRange]
                    ELSE trimmed_walk(Tail(parents), p,
                           TimeRange(result_range.start + parent_range.start,
                                     result_range.dur))

\* The last step of trimmed_range_of_child with the earlier of the two
\* starts taken instead of the later.
trim_result_earlier_start(c, result_range) ==
    IF source_range[c] = NoRange THEN [err |-> "ok", ret |-> result_range]
    ELSE IF result_range = NoRange
    THEN [err |-> "AttributeError", ret |-> NoRange]
    ELSE LET new_start_time == Min(source_range[c].start, result_range.start)
             new_duration == Min(end_time_exclusive(result_range),
                                 end_time_exclusive(source_range[c]))
                               - new_start_time
         IN IF new_start_time >= end_time_exclusive(result_range)
            THEN [err |-> "ok", ret |-> NoRange]
            ELSE IF new_duration < 0
            THEN [err |-> "ok", ret |-> NoRange]
            ELSE [err |-> "ok",
                  ret |-> TimeRange(new_start_time, new_duration)]

\* The last step of trimmed_range_of_child: the composed range cut to
\* self.source_range.
trim_result(c, result_range) ==
    IF source_range[c] = NoRange THEN [err |-> "ok", ret |-> result_range]
    ELSE IF result_range = NoRange
    THEN [err |-> "AttributeError", ret |-> NoRange]
    ELSE LET new_start_time == Max(source_range[c].start, result_range.start)
             new_duration == Min(end_time_exclusive(result_range),
                                 end_time_exclusive(source_range[c]))
                               - new_start_time
         IN IF new_start_time >= end_time_exclusive(result_range)
            THEN [err |-> "ok", ret |-> NoRange]
            ELSE IF new_duration < 0
            THEN [err |-> "ok", ret |-> NoRange]
            ELSE [err |-> "ok",
                  ret |-> TimeRange(new_start_time, new_duration)]

\* Composition.trimmed_range_of_child, reference_space left at its
\* default.
trimmed_range_of_child(c, child) ==
    LET path == path_to_child(Heap, c, child)
    IN IF path.err # "ok" THEN [err |-> path.err, ret |-> NoRange]
       ELSE LET composed == trimmed_walk(path.ret, child, NoRange)
            IN IF composed.err # "ok" THEN composed
               ELSE trim_result(c, composed.ret)

\* ----------------------------------------------------------- traversal
\* Composition.each_child from child i on; descended_from_type is
\* "Composable" (the default), "Item" or "Composition".
IsInstance(x, type) ==
    CASE type = "Composable" -> IsComposable(x)
      [] type = "Item" -> IsItem(x)
      [] OTHER -> IsComposition(x)

RECURSIVE each_child_from(_, _, _, _)
each_child_from(c, i, search_range, descended_from_type) ==
    IF i >= Len(children[c]) THEN <<>>
    ELSE LET child == children[c][i + 1]
             found ==
               IF /\ search_range # NoRange
                  /\ ~overlaps(range_of_child_at_index(c, i), search_range)
               THEN <<>>
               ELSE (IF \/ descended_from_type = "Composable"
                        \/ IsInstance(child, descended_from_type)
                     THEN <<child>> ELSE <<>>)
                    \o (IF IsComposition(child)
                        THEN each_child_from(child, 0, search_range,
                                             descended_from_type)
                        ELSE <<>>)
         IN found \o each_child_from(c, i + 1, search_range,
                                     descended_from_type)

\* Composition.each_child
each_child(c, search_range, descended_from_type) ==
    each_child_from(c, 0, search_range, descended_from_type)

\* Composition.children_at_time
children_at_time(c, t) ==
    LET hit == {i \in 0..(Len(children[c]) - 1) :
                   contains(range_of_child_at_index(c, i), t)}
        from[i \in 0..Len(children[c])] ==
            IF i = Len(children[c]) THEN <<>>
            ELSE (IF i \in hit THEN <<children[c][i + 1]>> ELSE <<>>)
                 \o from[i + 1]
    IN from[0]

\* Composition.top_clip_at_time: the loop over the children at t.
RECURSIVE top_clip_at_time(_, _)
RECURSIVE top_clip_among(_, _, _)
top_clip_among(c, candidates, t) ==
    IF candidates = <<>> THEN None
    ELSE LET child == Head(candidates)
         IN IF IsComposition(child)
            THEN top_clip_at_time(child, transformed_time(c, t, child))
            ELSE IF ~visible(child)
            THEN top_clip_among(c, Tail(candidates), t)
            ELSE child

top_clip_at_time(c, t) == top_clip_among(c, children_at_time(c, t), t)

\* ----------------------------------------------------- claims, under Spec
\* The positions of c's child list that hold x.
Positions(c, x) == {i \in 1..Len(children[c]) : children[c][i] = x}

\* The chain of back-references from x ends in None with c not on it.
NullBeforeSelf(par, c, x) ==
    \E k \in 0..Cardinality(Composables) :
        /\ Up(par, x, k) = None
        /\ \A j \in 0..(k - 1) : Up(par, x, j) # c

GraphUnchanged ==
    children' = children /\ parent' = parent /\ source_range' = source_range

\* -------------------------------------------- actions of the range queries
\* A range result as last.ret holds it: <<r>>, or <<>> for None.
Returned(r) == IF r = NoRange THEN <<>> ELSE <<r>>

RangeOfChild(c, child) ==
    LET r == range_of_child(c, child)
    IN /\ last' = Call("range_of_child", c, child, r.err, Returned(r.ret))
       /\ UNCHANGED <<children, parent, source_range>>

TrimmedRangeOfChild(c, child) ==
    LET r == trimmed_range_of_child(c, child)
    IN /\ last' = Call("trimmed_range_of_child", c, child, r.err,
                       Returned(r.ret))
       /\ UNCHANGED <<children, parent, source_range>>

EachChild(c, search_range) ==
    /\ last' = Call("each_child", c, search_range, "ok",
                    each_child(c, search_range, "Composable"))
    /\ UNCHANGED <<children, parent, source_range>>

EachChildOfType(c, search_range, descended_from_type) ==
    /\ last' = Call("each_child_of_type", c, search_range, "ok",
                    each_child(c, search_range, descended_from_type))
    /\ UNCHANGED <<children, parent, source_range>>

ChildrenAtTime(c, t) ==
    /\ last' = Call("children_at_time", c, t, "ok", children_at_time(c, t))
    /\ UNCHANGED <<children, parent, source_range>>

TopClipAtTime(c, t) ==
    LET r == top_clip_at_time(c, t)
    IN /\ last' = Call("top_clip_at_time", c, t, "ok",
                       IF r = None THEN <<>> ELSE <<r>>)
       /\ UNCHANGED <<children, parent, source_range>>

\* The items the trees are built of.
TreeItems == Compositions \cup Leaves

\* x is held by no composition and is not c or above c: inserting it
\* into c keeps the compositions a forest.
CanAttach(c, x) ==
    /\ parent[x] = None
    /\ \A d \in Compositions : Positions(d, x) = {}
    /\ \A k \in 0..Cardinality(Composables) : Up(parent, c, k) # x

\* The source ranges a composition is constructed with.
SourceRanges ==
    {NoRange} \cup {TimeRange(s, d) : s \in 0..MaxTime, d \in 0..MaxTime}

\* All the media there is, end to end.
TotalMedia == available_duration("clipA") + available_duration("gapB")

Times == 0..(TotalMedia - 1)

\* The search ranges each_child is given: none, the ranges from time 0
\* of every length up to all the media, and one past all the media.
SearchRanges ==
    {NoRange} \cup {TimeRange(0, d) : d \in 0..TotalMedia}
              \cup {TimeRange(TotalMedia, 1)}

InitQuery ==
    /\ children = [c \in Compositions |-> <<>>]
    /\ parent = [x \in Composables |-> None]
    /\ source_range \in [Compositions -> SourceRanges]
    /\ last = Call("init", None, None, "ok", <<>>)

\* insert of an item that keeps the compositions a forest.
Attach(c, index, x) == CanAttach(c, x) /\ Insert(c, index, x)

NextRange ==
    \/ \E c \in Compositions, i \in Indices, x \in TreeItems : Attach(c, i, x)
    \/ \E c \in Compositions, x \in TreeItems : RangeOfChild(c, x)
    \/ \E c \in Compositions, x \in TreeItems : TrimmedRangeOfChild(c, x)

\* Trees built by insert, and the two range queries asked of them.
RangeSpec == InitQuery /\ [][NextRange]_vars

NextTraversal ==
    \/ \E c \in Compositions, i \in Indices, x \in TreeItems : Attach(c, i, x)
    \/ \E c \in Compositions, r \in SearchRanges : EachChild(c, r)
    \/ \E c \in Compositions, r \in SearchRanges :
          EachChildOfType(c, r, "Composition")
    \/ \E c \in Compositions, t \in Times : ChildrenAtTime(c, t)
    \/ \E c \in Compositions, t \in Times : TopClipAtTime(c, t)

\* Trees built by insert, and the traversals asked of them.
TraversalSpec == InitQuery /\ [][NextTraversal]_vars

\* C1: every composable with a non-null back-reference is held by the
\* composition it points to, at exactly one position of its child list.
OwnershipInvariant ==
    \A x \in Composables :
        parent[x] # None => Cardinality(Positions(parent[x], x)) = 1

\* C2: after a successful c.insert(index, x), x's back-reference is c and
\* c[c.index(x)] is x.
InsertAttaches ==
    (last.op = "insert" /\ last.err = "ok") =>
        /\ parent[last.item] = last.self
        /\ index_of(Heap, last.self, last.item) >= 0
        /\ getitem(Heap, last.self,
                   index_of(Heap, last.self, last.item)) = last.item

\* C2 witness: an insert that put its item behind another child.
InsertAttachesWitness ==
    /\ last.op = "insert"
    /\ last.err = "ok"
    /\ index_of(Heap, last.self, last.item) = 1
    /\ parent[last.item] = last.self

\* C3: after del c[i] removed x, x's back-reference is None and no position
\* of c's child list holds x.
DeleteDetaches ==
    (last.op = "delitem" /\ last.err = "ok") =>
        /\ parent[last.item] = None
        /\ Positions(last.self, last.item) = {}

\* C4: insert and __setitem__ given an object that is not a Composable both
\* fail with TypeError and change no child list and no back-reference.
SameTypeCheck ==
    [][(last'.op \in {"insert", "setitem"} /\ ~IsComposable(last'.item)) =>
         (last'.err = "TypeError" /\ GraphUnchanged)]_vars

\* C5 as stated: _path_to_child fails with NotAChildError both when the
\* chain from child reaches None before self and when child is not an
\* Item, and changes nothing.
PathFailsNotAChild ==
    [][(/\ last'.op = "path_to_child"
        /\ \/ ~IsItem(last'.item)
           \/ NullBeforeSelf(parent, last'.self, last'.item)) =>
         (last'.err = "NotAChildError" /\ GraphUnchanged)]_vars

\* C5 amended: _path_to_child fails with TypeError when child is not an
\* Item, with NotAChildError when child is an Item whose chain reaches None
\* before self, and changes nothing in either case.
PathFailureKinds ==
    [][last'.op = "path_to_child" =>
         /\ GraphUnchanged
         /\ ~IsItem(last'.item) => last'.err = "TypeError"
         /\ (IsItem(last'.item)
             /\ NullBeforeSelf(parent, last'.self, last'.item)) =>
                last'.err = "NotAChildError"]_vars

\* C5 witness: the child asked for is held by self and points back to it,
\* and the call still fails, because the child is not an Item.
PathFailureKindsWitness ==
    /\ last.op = "path_to_child"
    /\ last.err = "TypeError"
    /\ IsComposable(last.item)
    /\ parent[last.item] = last.self
    /\ Positions(last.self, last.item) # {}

\* C9: no chain of back-references has a cycle, and every _path_to_child
\* call returns.
NoCycleAndPathReturns ==
    /\ \A x \in Composables :
           Up(parent, x, Cardinality(Composables)) = None
    /\ last.op = "path_to_child" => last.err # "NoReturn"

\* ------------------------------------------------ claims, under RangeSpec
\* The number of back-references from x up to c (0 when c is not above x).
Depth(c, x) ==
    LET ks == {k \in 1..Cardinality(Composables) : Up(parent, x, k) = c}
    IN IF ks = {} THEN 0 ELSE CHOOSE k \in ks : \A j \in ks : k <= j

\* Level j of the path from x: the place of the node j - 1 above x in the
\* child list of the node j above x.
LevelIndex(x, j) ==
    index_of(Heap, Up(parent, x, j), Up(parent, x, j - 1))

LevelRange(x, j) == range_of_child_at_index(Up(parent, x, j), LevelIndex(x, j))

LevelTrimmed(x, j) ==
    trimmed_range_of_child_at_index(Up(parent, x, j), LevelIndex(x, j))

RECURSIVE SumOfStarts(_, _)
SumOfStarts(x, k) ==
    IF k = 0 THEN 0 ELSE SumOfStarts(x, k - 1) + LevelRange(x, k).start

RECURSIVE SumOfTrimmedStarts(_, _)
SumOfTrimmedStarts(x, k) ==
    IF k = 0 THEN 0
    ELSE SumOfTrimmedStarts(x, k - 1) + LevelTrimmed(x, k).start

\* a lies inside b.
Inside(a, b) ==
    b.start <= a.start /\ end_time_exclusive(a) <= end_time_exclusive(b)

\* C10: for a child k >= 1 levels below self, range_of_child returns the
\* range whose start is the sum of the k levels' starts and whose duration
\* is the one the nearest ancestor reports, and changes nothing.
RangeOfChildSumsStarts ==
    [][last'.op = "range_of_child" =>
         /\ GraphUnchanged
         /\ Depth(last'.self, last'.item) >= 1 =>
              /\ last'.err = "ok"
              /\ last'.ret =
                   <<TimeRange(
                       SumOfStarts(last'.item,
                                   Depth(last'.self, last'.item)),
                       LevelRange(last'.item, 1).dur)>>]_vars

\* C10 witness: a child two levels down, placed after time zero, whose
\* range is not the one the upper level reports for its ancestor.
RangeOfChildSumsStartsWitness ==
    /\ last.op = "range_of_child"
    /\ Depth(last.self, last.item) = 2
    /\ last.err = "ok"
    /\ Len(last.ret) = 1
    /\ last.ret[1].start > 0
    /\ last.ret[1].dur # LevelRange(last.item, 2).dur

\* The range trimmed_range_of_child composes along the path, when every
\* level reports one.
ComposedTrimmed(c, x) ==
    TimeRange(SumOfTrimmedStarts(x, Depth(c, x)), LevelTrimmed(x, 1).dur)

EveryLevelTrimmed(c, x) ==
    \A j \in 1..Depth(c, x) : LevelTrimmed(x, j) # NoRange

RECURSIVE PreOrder(_)
RECURSIVE PreOrderFrom(_, _)
PreOrderFrom(c, n) ==
    IF n > Len(children[c]) THEN <<>>
    ELSE LET child == children[c][n]
         IN <<child>>
            \o (IF IsComposition(child) THEN PreOrder(child) ELSE <<>>)
            \o PreOrderFrom(c, n + 1)

PreOrder(c) == PreOrderFrom(c, 1)

\* r covers the whole of c: from time zero to the end of c's last child.
CoversWhole(r, c) ==
    /\ r.start <= 0
    /\ \A i \in 0..(Len(children[c]) - 1) :
          end_time_exclusive(range_of_child_at_index(c, i))
              <= end_time_exclusive(r)

\* Nothing under c is of zero length.
NoEmptyRanges(c) ==
    \A i \in 1..Len(PreOrder(c)) : duration(PreOrder(c)[i]) > 0

\* C7: each_child yields nothing when the search range overlaps none of
\* the direct children's ranges, and every descendant, once each, in
\* depth-first order when the search range covers the whole composition.
\* Stated for search ranges and trees without zero-length ranges, so that
\* it does not rest on what an empty range overlaps.
EachChildWholeRangeYieldsAll ==
    (/\ last.op = "each_child"
     /\ last.item # NoRange
     /\ last.item.dur > 0
     /\ NoEmptyRanges(last.self)) =>
        /\ (\A i \in 0..(Len(children[last.self]) - 1) :
               ~overlaps(range_of_child_at_index(last.self, i), last.item))
             => last.ret = <<>>
        /\ CoversWhole(last.item, last.self)
             => last.ret = PreOrder(last.self)

\* The direct children of c whose range contains t.
ChildrenContaining(c, t) ==
    {children[c][i + 1] : i \in {j \in 0..(Len(children[c]) - 1) :
                                   contains(range_of_child_at_index(c, j), t)}}

\* C8: top_clip_at_time returns None when every direct child whose range
\* contains t is not visible, and any node it returns is a visible item
\* that is not a Composition.
TopClipRespectsVisible ==
    last.op = "top_clip_at_time" =>
        /\ (\A x \in ChildrenContaining(last.self, last.item) : ~visible(x))
             => last.ret = <<>>
        /\ last.ret # <<>> =>
             (~IsComposition(last.ret[1]) /\ visible(last.ret[1]))

====
